---- MODULE Spec2Model ----
(***************************************************************************)
(* Pet-adoption registry canister (src/dfinity_js_backend/src/index.ts).   *)
(* Four StableBTreeMap stores (Users, Pets, Shelters, Adoptions) and the   *)
(* update methods of the canister.  Each update call is one atomic step.   *)
(* Text values are sequences of one-character strings, so that the         *)
(* validation helpers are computed the way the regular expressions and     *)
(* trim() compute them.                                                    *)
(***************************************************************************)
EXTENDS Integers, Sequences, FiniteSets, TLC

VARIABLES UsersStorage, PetsStorage, SheltersStorage, AdoptionsStorage, ret

vars == <<UsersStorage, PetsStorage, SheltersStorage, AdoptionsStorage, ret>>

stores == <<UsersStorage, PetsStorage, SheltersStorage, AdoptionsStorage>>

\* Number of ids uuidv4() hands out before the model stops creating records.
MaxIds == 5

----------------------------------------------------------------------------
(* Text *)

Digits == {"0", "1", "2", "3", "4", "5", "6", "7", "8", "9"}
Whitespace == {" ", "\t", "\n"}

DigitChar == <<"0", "1", "2", "3", "4", "5", "6", "7", "8", "9">>

\* The value of a property read the object does not have (no text equals it).
Undefined == <<"undefined">>

IsText(x) == x # Undefined

\* String.prototype.trim(): drop leading and trailing whitespace.
RECURSIVE TrimStart(_)
TrimStart(s) ==
  IF s = <<>> THEN s
  ELSE IF Head(s) \in Whitespace THEN TrimStart(Tail(s)) ELSE s

RECURSIVE TrimEnd(_)
TrimEnd(s) ==
  IF s = <<>> THEN s
  ELSE IF s[Len(s)] \in Whitespace THEN TrimEnd(SubSeq(s, 1, Len(s) - 1)) ELSE s

trim(s) == TrimEnd(TrimStart(s))

\* typeof x === "string" && x.trim().length > 0
NonBlank(s) == IsText(s) /\ Len(trim(s)) > 0

\* /^[^\s@]+@[^\s@]+\.[^\s@]+$/
isValidEmail(email) ==
  \E a \in 1..Len(email) : \E d \in 1..Len(email) :
    /\ email[a] = "@"
    /\ email[d] = "."
    /\ 1 < a
    /\ a + 1 < d
    /\ d < Len(email)
    /\ \A i \in 1..Len(email) :
         /\ email[i] \notin Whitespace
         /\ (email[i] = "@" => i = a)

\* /^[0-9]{10,15}$/
isValidPhoneNumber(phoneNumber) ==
  /\ Len(phoneNumber) >= 10
  /\ Len(phoneNumber) <= 15
  /\ \A i \in 1..Len(phoneNumber) : phoneNumber[i] \in Digits

validateUserPayload(payload) ==
  /\ NonBlank(payload.name)
  /\ isValidPhoneNumber(payload.phoneNumber)
  /\ isValidEmail(payload.email)
  /\ NonBlank(payload.address)

validatePetPayload(payload) ==
  /\ NonBlank(payload.name)
  /\ NonBlank(payload.species)
  /\ NonBlank(payload.breed)
  /\ NonBlank(payload.gender)
  /\ NonBlank(payload.age)
  /\ NonBlank(payload.petImage)
  /\ NonBlank(payload.description)
  /\ NonBlank(payload.healthStatus)
  /\ NonBlank(payload.shelterId)

validateShelterPayload(payload) ==
  /\ NonBlank(payload.name)
  /\ NonBlank(payload.location)
  /\ isValidPhoneNumber(payload.phoneNumber)
  /\ isValidEmail(payload.email)

validateAdoptionPayload(payload) ==
  /\ NonBlank(payload.petId)
  /\ NonBlank(payload.userId)
  /\ isValidPhoneNumber(payload.userPhoneNumber)
  /\ NonBlank(payload.address)
  /\ NonBlank(payload.reasonForAdoption)

\* The check updateAdoptionRecord makes inline on the four patched fields.
validateUpdateAdoption(payload) ==
  /\ NonBlank(payload.userName)
  /\ isValidPhoneNumber(payload.userPhoneNumber)
  /\ NonBlank(payload.address)
  /\ NonBlank(payload.reasonForAdoption)

----------------------------------------------------------------------------
(* Objects, candid records and the stores *)

\* { ...a, ...b }
Spread(a, b) ==
  [k \in DOMAIN a \cup DOMAIN b |-> IF k \in DOMAIN b THEN b[k] ELSE a[k]]

\* obj.k
Get(obj, k) == IF k \in DOMAIN obj THEN obj[k] ELSE Undefined

UserFields == {"id", "principal", "name", "phoneNumber", "email", "address",
               "application"}

PetFields == {"id", "name", "species", "breed", "gender", "age", "petImage",
              "description", "healthStatus", "shelterId", "status"}

ShelterFields == {"id", "principal", "name", "location", "phoneNumber", "email",
                  "pets"}

AdoptionRecordsFields == {"adoptionId", "userId", "petId", "petName", "userName",
                          "userPhoneNumber", "address", "reasonForAdoption",
                          "dateOfAdoption", "status"}

\* A value of a candid Record type keeps the declared fields of the object.
Encode(fields, obj) == [k \in fields |-> obj[k]]

\* StableBTreeMap.insert(key, value); the key type of every store is text.
insert(store, key, value) ==
  [k \in DOMAIN store \cup {key} |-> IF k = key THEN value ELSE store[k]]

\* uuidv4(): a fresh id.  The id made for the n-th record of a store is the
\* store's letter followed by n, so no two calls return the same id.
uuidv4(kind, n) == <<kind, DigitChar[n + 1]>>

----------------------------------------------------------------------------
(* Results *)

NoVal == [none |-> TRUE]

Ok(op, val) == [op |-> op, tag |-> "Ok", val |-> val]
Err(op, tag) == [op |-> op, tag |-> tag, val |-> NoVal]
\* An exception thrown inside an update method traps: the call is rejected and
\* the canister state is what it was before the call.
Trap(op) == [op |-> op, tag |-> "Trap", val |-> NoVal]

----------------------------------------------------------------------------
(* Inputs *)

\* ic.caller(): the identity of the caller of an update call.
Principals == {"alice"}

BlankText == <<" ">>
TxtName == <<"R", "e", "x">>
TxtName2 == <<"A", "n", "n">>
TxtAddr == <<"1", " ", "E", "l", "m">>
TxtAddr2 == <<"2", " ", "O", "a", "k">>
TxtOther == <<"x">>
TxtOther2 == <<"y">>
Phone1 == <<"0", "7", "0", "0", "1", "1", "2", "2", "3", "3">>
Phone2 == <<"0", "7", "0", "0", "1", "1", "2", "2", "3", "4", "5">>
PhoneShort == <<"0", "7", "0", "0", "1", "1", "2", "2", "3">>
PhoneAlpha == <<"0", "7", "0", "0", "1", "1", "2", "2", "3", "a">>
Email1 == <<"a", "@", "b", ".", "c">>
Email2 == <<"d", "@", "e", ".", "f">>
EmailNoDot == <<"a", "@", "b", "c">>
Now == <<"2", "0", "2", "4", "Z">>

\* Ids a caller may pass for a record of one kind: every id uuidv4 can hand out
\* for that kind in the model, and a blank text.
IdInputs(kind) == {uuidv4(kind, n) : n \in 1..(MaxIds + 1)} \cup {BlankText}
UserIds == IdInputs("u")
PetIds == IdInputs("p")
ShelterIds == IdInputs("s")
AdoptionIds == IdInputs("a")

\* Ids the in-place field updates (addPetImage, updatePetInfo, updateShelterInfo,
\* updateAdoptionRecord) are called with: the first id of the kind, and a blank.
FirstIds(kind) == {uuidv4(kind, 1), BlankText}

ValidUserPayload ==
  [name |-> TxtName, phoneNumber |-> Phone1, email |-> Email1, address |-> TxtAddr]

UserPayloads ==
  { ValidUserPayload,
    [ValidUserPayload EXCEPT !.phoneNumber = PhoneShort],
    [ValidUserPayload EXCEPT !.email = EmailNoDot],
    [ValidUserPayload EXCEPT !.address = BlankText] }

ValidShelterPayload ==
  [name |-> TxtName, location |-> TxtAddr, phoneNumber |-> Phone1, email |-> Email1]

ShelterPayloads ==
  { ValidShelterPayload,
    [ValidShelterPayload EXCEPT !.location = BlankText],
    [ValidShelterPayload EXCEPT !.phoneNumber = PhoneAlpha] }

ValidPetPayload(shelterId) ==
  [name |-> TxtName, species |-> TxtOther, breed |-> TxtOther, gender |-> TxtOther,
   age |-> TxtOther, petImage |-> TxtOther, description |-> TxtOther,
   healthStatus |-> TxtOther, shelterId |-> shelterId]

PetPayloads ==
  { ValidPetPayload(shelterId) : shelterId \in ShelterIds }
    \cup { [ValidPetPayload(uuidv4("s", 1)) EXCEPT !.healthStatus = BlankText] }

PetImagePayloads == [petId : FirstIds("p"), petImage : {BlankText}]

UpdatePetPayloads ==
  [petId : FirstIds("p"), healthStatus : {TxtOther2, BlankText}, age : {TxtOther2}]

UpdateShelterPayloads ==
  { p \in [id : FirstIds("s"), phoneNumber : {Phone2, PhoneShort},
           email : {Email2, EmailNoDot}] :
      p.phoneNumber = Phone2 \/ p.email = Email2 }

ValidAdoptionPayload(petId, userId) ==
  [petId |-> petId, userId |-> userId, userPhoneNumber |-> Phone1,
   address |-> TxtAddr, reasonForAdoption |-> TxtOther]

AdoptionPayloads ==
  { ValidAdoptionPayload(petId, userId) : petId \in PetIds, userId \in UserIds }
    \cup { [ValidAdoptionPayload(uuidv4("p", 1), uuidv4("u", 1))
              EXCEPT !.userPhoneNumber = PhoneShort],
           [ValidAdoptionPayload(uuidv4("p", 1), uuidv4("u", 1))
              EXCEPT !.reasonForAdoption = BlankText] }

UpdateAdoptionPayloads ==
  [adoptionId : FirstIds("a"), userName : {TxtName2, BlankText},
   userPhoneNumber : {Phone2}, address : {TxtAddr2},
   reasonForAdoption : {TxtOther2}]

----------------------------------------------------------------------------
(* State *)

Init ==
  /\ UsersStorage = <<>>
  /\ PetsStorage = <<>>
  /\ SheltersStorage = <<>>
  /\ AdoptionsStorage = <<>>
  /\ ret = Err("init", "None")

\* The number of uuidv4() calls so far: every call is followed by the insertion
\* of one record under the new id, and no record is ever removed.
uuidCount ==
  Cardinality(DOMAIN UsersStorage) + Cardinality(DOMAIN PetsStorage)
    + Cardinality(DOMAIN SheltersStorage) + Cardinality(DOMAIN AdoptionsStorage)

\* The id the next uuidv4() call returns, made for a new record of `store`.
NextUuid(kind, store) == uuidv4(kind, Cardinality(DOMAIN store) + 1)

----------------------------------------------------------------------------
(* User operations *)

\* Mutant: the record is keyed by a field of the payload, not by a fresh id.
newUserKeyedByName(userId, caller, payload) ==
  Encode(UserFields,
         Spread([id |-> payload.name, principal |-> caller, application |-> <<>>],
                payload))

newUser(userId, caller, payload) ==
  Encode(UserFields,
         Spread([id |-> userId, principal |-> caller, application |-> <<>>],
                payload))

addUser(caller, payload) ==
  IF ~validateUserPayload(payload)
  THEN /\ ret' = Err("addUser", "ValidationError")
       /\ UNCHANGED stores
  ELSE /\ uuidCount < MaxIds
       /\ LET user == newUser(NextUuid("u", UsersStorage), caller, payload)
          IN /\ UsersStorage' = insert(UsersStorage, user.id, user)
             /\ ret' = Ok("addUser", user)
       /\ UNCHANGED <<PetsStorage, SheltersStorage, AdoptionsStorage>>

----------------------------------------------------------------------------
(* Pet operations *)

newPet(petId, payload) ==
  Encode(PetFields, Spread([id |-> petId, status |-> "notAdopted"], payload))

\* Mutant: the shelter's own id is pushed on its list.
pushPetShelterId(shelter, petId) == [shelter EXCEPT !.pets = Append(@, shelter.id)]

\* Mutant: the pet id is pushed twice.
pushPetTwice(shelter, petId) == [shelter EXCEPT !.pets = Append(Append(@, petId), petId)]

\* shelter.pets.push(petId)
pushPet(shelter, petId) == [shelter EXCEPT !.pets = Append(@, petId)]

\* Mutant: the pet is stored before the shelter is looked up.
addPetStoredFirst(payload) ==
  IF ~validatePetPayload(payload)
  THEN /\ ret' = Err("addPet", "ValidationError")
       /\ UNCHANGED stores
  ELSE /\ uuidCount < MaxIds
       /\ LET pet == newPet(NextUuid("p", PetsStorage), payload)
          IN /\ PetsStorage' = insert(PetsStorage, pet.id, pet)
             /\ IF payload.shelterId \notin DOMAIN SheltersStorage
                THEN /\ ret' = Err("addPet", "NotFound")
                     /\ UNCHANGED SheltersStorage
                ELSE /\ SheltersStorage' =
                          insert(SheltersStorage, payload.shelterId,
                                 pushPet(SheltersStorage[payload.shelterId], pet.id))
                     /\ ret' = Ok("addPet", pet)
       /\ UNCHANGED <<UsersStorage, AdoptionsStorage>>

addPet(payload) ==
  IF ~validatePetPayload(payload)
  THEN /\ ret' = Err("addPet", "ValidationError")
       /\ UNCHANGED stores
  ELSE IF payload.shelterId \notin DOMAIN SheltersStorage
  THEN /\ ret' = Err("addPet", "NotFound")
       /\ UNCHANGED stores
  ELSE /\ uuidCount < MaxIds
       /\ LET pet == newPet(NextUuid("p", PetsStorage), payload)
              shelter == pushPet(SheltersStorage[payload.shelterId], pet.id)
          IN /\ PetsStorage' = insert(PetsStorage, pet.id, pet)
             /\ SheltersStorage' = insert(SheltersStorage, shelter.id, shelter)
             /\ ret' = Ok("addPet", pet)
       /\ UNCHANGED <<UsersStorage, AdoptionsStorage>>

\* pet.petImage = payload.petImage
withImage(pet, petImage) == [pet EXCEPT !.petImage = petImage]

addPetImage(payload) ==
  IF payload.petId \notin DOMAIN PetsStorage
  THEN /\ ret' = Err("addPetImage", "NotFound")
       /\ UNCHANGED stores
  ELSE /\ LET pet == withImage(PetsStorage[payload.petId], payload.petImage)
          IN PetsStorage' = insert(PetsStorage, pet.id, pet)
       /\ ret' = Ok("addPetImage", payload)
       /\ UNCHANGED <<UsersStorage, SheltersStorage, AdoptionsStorage>>

\* Mutant: the update rebuilds the pet the way addPet builds a new one.
mergedPetAsNew(pet, payload) ==
  Encode(PetFields, Spread([id |-> pet.id, status |-> "notAdopted"],
                           Spread([k \in PetFields \ {"id", "status"} |-> pet[k]],
                                  payload)))

\* { ...pet, ...payload }, stored as a Pet
mergedPet(pet, payload) == Encode(PetFields, Spread(pet, payload))

\* Mutant: only the fields of the patch are validated, not the merged record.
updatePetInfoPatchOnly(payload) ==
  IF payload.petId \notin DOMAIN PetsStorage
  THEN /\ ret' = Err("updatePetInfo", "NotFound")
       /\ UNCHANGED stores
  ELSE LET pet == PetsStorage[payload.petId]
           updatedPet == mergedPet(pet, payload)
       IN IF ~(NonBlank(payload.healthStatus) /\ NonBlank(payload.age))
          THEN /\ ret' = Err("updatePetInfo", "ValidationError")
               /\ UNCHANGED stores
          ELSE /\ PetsStorage' = insert(PetsStorage, pet.id, updatedPet)
               /\ ret' = Ok("updatePetInfo", updatedPet)
               /\ UNCHANGED <<UsersStorage, SheltersStorage, AdoptionsStorage>>

updatePetInfo(payload) ==
  IF payload.petId \notin DOMAIN PetsStorage
  THEN /\ ret' = Err("updatePetInfo", "NotFound")
       /\ UNCHANGED stores
  ELSE LET pet == PetsStorage[payload.petId]
           updatedPayload == Spread(pet, payload)
           updatedPet == mergedPet(pet, payload)
       IN IF ~validatePetPayload(updatedPayload)
          THEN /\ ret' = Err("updatePetInfo", "ValidationError")
               /\ UNCHANGED stores
          ELSE /\ PetsStorage' = insert(PetsStorage, pet.id, updatedPet)
               /\ ret' = Ok("updatePetInfo", updatedPet)
               /\ UNCHANGED <<UsersStorage, SheltersStorage, AdoptionsStorage>>

----------------------------------------------------------------------------
(* Shelter operations *)

\* Mutant: the principal attached is a fixed identity, not the caller.
newShelterFixedPrincipal(shelterId, caller, payload) ==
  Encode(ShelterFields,
         Spread([id |-> shelterId, principal |-> "alice", pets |-> <<>>], payload))

newShelter(shelterId, caller, payload) ==
  Encode(ShelterFields,
         Spread([id |-> shelterId, principal |-> caller, pets |-> <<>>], payload))

createShelter(caller, payload) ==
  IF ~validateShelterPayload(payload)
  THEN /\ ret' = Err("createShelter", "ValidationError")
       /\ UNCHANGED stores
  ELSE /\ uuidCount < MaxIds
       /\ LET shelter == newShelter(NextUuid("s", SheltersStorage), caller, payload)
          IN /\ SheltersStorage' = insert(SheltersStorage, shelter.id, shelter)
             /\ ret' = Ok("createShelter", shelter)
       /\ UNCHANGED <<UsersStorage, PetsStorage, AdoptionsStorage>>

\* getShelter(id): Opt(Shelter)
getShelter(id) ==
  IF id \in DOMAIN SheltersStorage
  THEN [Some |-> SheltersStorage[id]] ELSE [None |-> TRUE]

\* { ...shelter, ...payload }, stored as a Shelter
mergedShelter(shelter, payload) == Encode(ShelterFields, Spread(shelter, payload))

updateShelterInfo(payload) ==
  IF payload.id \notin DOMAIN SheltersStorage
  THEN /\ ret' = Err("updateShelterInfo", "NotFound")
       /\ UNCHANGED stores
  ELSE LET shelter == SheltersStorage[payload.id]
           updatedPayload == Spread(shelter, payload)
           updatedShelter == mergedShelter(shelter, payload)
       IN IF ~validateShelterPayload(updatedPayload)
          THEN /\ ret' = Err("updateShelterInfo", "ValidationError")
               /\ UNCHANGED stores
          ELSE /\ SheltersStorage' = insert(SheltersStorage, shelter.id, updatedShelter)
               /\ ret' = Ok("updateShelterInfo", updatedShelter)
               /\ UNCHANGED <<UsersStorage, PetsStorage, AdoptionsStorage>>

----------------------------------------------------------------------------
(* Adoption operations *)

\* Mutant: the availability check compares with a status no pet ever has.
petAvailableWrongStatus(pet) == pet.status # "pending"

\* pet.status !== "notAdopted" is the only availability check of fileForAdoption.
petAvailable(pet) == pet.status = "notAdopted"

newAdoptionRecords(adoptionId, user, pet, payload) ==
  LET adoption == [id |-> adoptionId,
                   petId |-> pet.id,
                   userId |-> user.id,
                   userPhoneNumber |-> user.phoneNumber,
                   address |-> user.address,
                   reasonForAdoption |-> payload.reasonForAdoption]
  IN [adoptionId |-> adoption.id,
      userId |-> adoption.userId,
      petId |-> adoption.petId,
      petName |-> pet.name,
      userName |-> user.name,
      userPhoneNumber |-> adoption.userPhoneNumber,
      address |-> adoption.address,
      reasonForAdoption |-> adoption.reasonForAdoption,
      dateOfAdoption |-> Now,
      status |-> "pending"]

\* Mutant: the new record's id is pushed twice.
pushApplicationTwice(user, adoptionId) ==
  [user EXCEPT !.application = Append(Append(@, adoptionId), adoptionId)]

\* Mutant: the new record's id is not pushed.
pushApplicationDropped(user, adoptionId) == user

\* user.application.push(records.adoptionId)
pushApplication(user, adoptionId) ==
  [user EXCEPT !.application = Append(@, adoptionId)]

\* The error fileForAdoption returns before it writes anything, "None" if none.
fileForAdoptionError(payload) ==
  IF ~validateAdoptionPayload(payload) THEN "ValidationError"
  ELSE IF payload.userId \notin DOMAIN UsersStorage THEN "NotFound"
  ELSE IF payload.petId \notin DOMAIN PetsStorage THEN "NotFound"
  ELSE IF ~petAvailable(PetsStorage[payload.petId]) THEN "InvalidPayload"
  ELSE "None"

fileForAdoption(payload) ==
  IF fileForAdoptionError(payload) # "None"
  THEN /\ ret' = Err("fileForAdoption", fileForAdoptionError(payload))
       /\ UNCHANGED stores
  ELSE /\ uuidCount < MaxIds
       /\ LET records == newAdoptionRecords(NextUuid("a", AdoptionsStorage),
                                            UsersStorage[payload.userId],
                                            PetsStorage[payload.petId], payload)
              user == pushApplication(UsersStorage[payload.userId], records.adoptionId)
          IN /\ UsersStorage' = insert(UsersStorage, user.id, user)
             /\ AdoptionsStorage' = insert(AdoptionsStorage, records.adoptionId, records)
             /\ ret' = Ok("fileForAdoption", records)
       /\ UNCHANGED <<PetsStorage, SheltersStorage>>

\* getAdoptionRecord(id): Opt(AdoptionRecords)
getAdoptionRecord(id) ==
  IF id \in DOMAIN AdoptionsStorage
  THEN [Some |-> AdoptionsStorage[id]] ELSE [None |-> TRUE]

\* { ...adoption, userName, userPhoneNumber, address, reasonForAdoption }
patchedAdoption(adoption, payload) ==
  Encode(AdoptionRecordsFields,
         Spread(adoption,
                [userName |-> payload.userName,
                 userPhoneNumber |-> payload.userPhoneNumber,
                 address |-> payload.address,
                 reasonForAdoption |-> payload.reasonForAdoption]))

\* The key updateAdoptionRecord inserts under: adoption.id.  A stored
\* AdoptionRecords value has the field adoptionId and no field id.
updateKey(adoption) == Get(adoption, "id")

updateAdoptionRecord(payload) ==
  IF payload.adoptionId \notin DOMAIN AdoptionsStorage
  THEN /\ ret' = Err("updateAdoptionRecord", "NotFound")
       /\ UNCHANGED stores
  ELSE IF ~validateUpdateAdoption(payload)
  THEN /\ ret' = Err("updateAdoptionRecord", "ValidationError")
       /\ UNCHANGED stores
  ELSE LET adoption == AdoptionsStorage[payload.adoptionId]
           updatedAdoption == patchedAdoption(adoption, payload)
       IN IF ~IsText(updateKey(adoption))
          THEN \* encoding a key that is no text throws inside insert
               /\ ret' = Trap("updateAdoptionRecord")
               /\ UNCHANGED stores
          ELSE /\ AdoptionsStorage' =
                    insert(AdoptionsStorage, updateKey(adoption), updatedAdoption)
               /\ ret' = Ok("updateAdoptionRecord", updatedAdoption)
               /\ UNCHANGED <<UsersStorage, PetsStorage, SheltersStorage>>

\* Mutant: the status guard of completeAdoption and failAdoption is missing.
isPendingUnchecked(adoption) == TRUE

isPending(adoption) == adoption.status = "pending"

\* Mutant: the pet is written back without the new status.
adoptedPetUnmarked(pet) == pet

adoptedPet(pet) == [pet EXCEPT !.status = "adopted"]

\* Mutant: the record is given the pet's status word.
completedAdoptionAsAdopted(adoption) == [adoption EXCEPT !.status = "adopted"]

completedAdoption(adoption) == [adoption EXCEPT !.status = "completed"]

failedAdoption(adoption) == [adoption EXCEPT !.status = "failed"]

completeAdoption(adoptionId) ==
  IF adoptionId \notin DOMAIN AdoptionsStorage
  THEN /\ ret' = Err("completeAdoption", "NotFound")
       /\ UNCHANGED stores
  ELSE IF ~isPending(AdoptionsStorage[adoptionId])
  THEN /\ ret' = Err("completeAdoption", "InvalidPayload")
       /\ UNCHANGED stores
  ELSE IF AdoptionsStorage[adoptionId].petId \notin DOMAIN PetsStorage
  THEN /\ ret' = Err("completeAdoption", "NotFound")
       /\ UNCHANGED stores
  ELSE LET adoption == AdoptionsStorage[adoptionId]
           pet == PetsStorage[adoption.petId]
           updatedPet == adoptedPet(pet)
           updatedAdoption == completedAdoption(adoption)
       IN /\ PetsStorage' = insert(PetsStorage, pet.id, updatedPet)
          /\ AdoptionsStorage' = insert(AdoptionsStorage, adoptionId, updatedAdoption)
          /\ ret' = Ok("completeAdoption", updatedAdoption)
          /\ UNCHANGED <<UsersStorage, SheltersStorage>>

failAdoption(adoptionId) ==
  IF adoptionId \notin DOMAIN AdoptionsStorage
  THEN /\ ret' = Err("failAdoption", "NotFound")
       /\ UNCHANGED stores
  ELSE IF ~isPending(AdoptionsStorage[adoptionId])
  THEN /\ ret' = Err("failAdoption", "InvalidPayload")
       /\ UNCHANGED stores
  ELSE LET adoption == AdoptionsStorage[adoptionId]
           updatedAdoption == failedAdoption(adoption)
       IN /\ AdoptionsStorage' = insert(AdoptionsStorage, adoptionId, updatedAdoption)
          /\ ret' = Ok("failAdoption", updatedAdoption)
          /\ UNCHANGED <<UsersStorage, PetsStorage, SheltersStorage>>

----------------------------------------------------------------------------
(* Specification: any sequence of update calls by any callers *)

\* The ids a call is made with: the keys of the store, one id that is no key
\* of it (the next one uuidv4 makes for that store), and a blank text.
Offered(kind, store) == DOMAIN store \cup {NextUuid(kind, store), BlankText}

Next ==
  \/ \E caller \in Principals : \E payload \in UserPayloads : addUser(caller, payload)
  \/ \E caller \in Principals : \E payload \in ShelterPayloads :
       createShelter(caller, payload)
  \/ \E payload \in PetPayloads :
       /\ payload.shelterId \in Offered("s", SheltersStorage)
       /\ addPet(payload)
  \/ \E payload \in PetImagePayloads : addPetImage(payload)
  \/ \E payload \in UpdatePetPayloads : updatePetInfo(payload)
  \/ \E payload \in UpdateShelterPayloads : updateShelterInfo(payload)
  \/ \E payload \in AdoptionPayloads :
       /\ payload.petId \in Offered("p", PetsStorage)
       /\ payload.userId \in Offered("u", UsersStorage)
       /\ fileForAdoption(payload)
  \/ \E payload \in UpdateAdoptionPayloads : updateAdoptionRecord(payload)
  \/ \E adoptionId \in AdoptionIds :
       /\ adoptionId \in Offered("a", AdoptionsStorage)
       /\ completeAdoption(adoptionId)
  \/ \E adoptionId \in AdoptionIds :
       /\ adoptionId \in Offered("a", AdoptionsStorage)
       /\ failAdoption(adoptionId)

Spec == Init /\ [][Next]_vars

\* The shelter and user registrations with two callers: any sequence of
\* addUser, createShelter, addPet and updateShelterInfo calls.
Callers == {"alice", "bob"}

NextCallers ==
  \/ \E caller \in Callers : \E payload \in UserPayloads : addUser(caller, payload)
  \/ \E caller \in Callers : \E payload \in ShelterPayloads :
       createShelter(caller, payload)
  \/ \E payload \in PetPayloads :
       /\ payload.shelterId \in Offered("s", SheltersStorage)
       /\ addPet(payload)
  \/ \E payload \in UpdateShelterPayloads : updateShelterInfo(payload)

SpecCallers == Init /\ [][NextCallers]_vars

----------------------------------------------------------------------------
(* Properties *)

Range(seq) == {seq[i] : i \in 1..Len(seq)}

PendingFor(petId) ==
  {a \in DOMAIN AdoptionsStorage :
     /\ AdoptionsStorage[a].petId = petId
     /\ AdoptionsStorage[a].status = "pending"}

\* C1: in every reachable state, for each pet id at most one AdoptionRecord
\* with that petId has status pending.
C1_AtMostOnePendingPerPet ==
  \A petId \in DOMAIN PetsStorage : Cardinality(PendingFor(petId)) <= 1

\* C2: the status of an AdoptionRecord only changes pending -> completed (by a
\* successful completeAdoption) or pending -> failed (by a successful
\* failAdoption); a record is created pending, no record disappears, and a
\* completed or failed record keeps its status.
C2_StatusTransitions ==
  [][ /\ DOMAIN AdoptionsStorage \subseteq DOMAIN AdoptionsStorage'
      /\ \A a \in DOMAIN AdoptionsStorage' :
           IF a \notin DOMAIN AdoptionsStorage
           THEN AdoptionsStorage'[a].status = "pending"
           ELSE \/ AdoptionsStorage'[a].status = AdoptionsStorage[a].status
                \/ /\ AdoptionsStorage[a].status = "pending"
                   /\ AdoptionsStorage'[a].status = "completed"
                   /\ ret'.op = "completeAdoption"
                   /\ ret'.tag = "Ok"
                \/ /\ AdoptionsStorage[a].status = "pending"
                   /\ AdoptionsStorage'[a].status = "failed"
                   /\ ret'.op = "failAdoption"
                   /\ ret'.tag = "Ok" ]_vars

\* C2 witness: one record has been completed, another failed, and
\* updateAdoptionRecord has been called on an existing record with a valid patch.
C2_Witness ==
  /\ \E a \in DOMAIN AdoptionsStorage : AdoptionsStorage[a].status = "completed"
  /\ \E a \in DOMAIN AdoptionsStorage : AdoptionsStorage[a].status = "failed"
  /\ ret.op = "updateAdoptionRecord"
  /\ ret.tag \notin {"NotFound", "ValidationError"}

\* C3: completeAdoption of a pending record succeeds, the record becomes
\* completed and its pet adopted; of a record that is not pending it fails with
\* InvalidPayload; of an id that is no key it fails with NotFound; the failing
\* calls change no store.
C3_CompleteAdoption ==
  [][ \A adoptionId \in AdoptionIds :
        (ret'.op = "completeAdoption" /\ completeAdoption(adoptionId)) =>
          IF adoptionId \notin DOMAIN AdoptionsStorage
          THEN ret'.tag = "NotFound" /\ UNCHANGED stores
          ELSE IF AdoptionsStorage[adoptionId].status # "pending"
          THEN ret'.tag = "InvalidPayload" /\ UNCHANGED stores
          ELSE /\ ret'.tag = "Ok"
               /\ AdoptionsStorage'[adoptionId].status = "completed"
               /\ PetsStorage'[AdoptionsStorage[adoptionId].petId].status = "adopted"
    ]_vars

\* C3 witness: completeAdoption has just been refused on a record that an
\* earlier completeAdoption completed.
C3_Witness ==
  /\ ret.op = "completeAdoption"
  /\ ret.tag = "InvalidPayload"
  /\ \A a \in DOMAIN AdoptionsStorage : AdoptionsStorage[a].status = "completed"
  /\ \E p \in DOMAIN PetsStorage : PetsStorage[p].status = "adopted"

\* C4: fileForAdoption with a valid payload naming an existing user and an
\* existing pet whose status is adopted fails with InvalidPayload and changes
\* no store.
C4_FileOnAdoptedPet ==
  [][ \A payload \in AdoptionPayloads :
        ( /\ payload.userId \in DOMAIN UsersStorage
          /\ payload.petId \in DOMAIN PetsStorage
          /\ PetsStorage[payload.petId].status = "adopted"
          /\ validateAdoptionPayload(payload)
          /\ fileForAdoption(payload) )
        => /\ ret'.tag = "InvalidPayload"
           /\ UNCHANGED stores
    ]_vars

\* C4 witness: fileForAdoption has just been refused with InvalidPayload while
\* some pet is adopted.
C4_Witness ==
  /\ ret.op = "fileForAdoption"
  /\ ret.tag = "InvalidPayload"
  /\ \E p \in DOMAIN PetsStorage : PetsStorage[p].status = "adopted"

\* C5: a successful fileForAdoption adds exactly one AdoptionRecord, pending,
\* with the payload's petId and userId, appends its id to the applications of
\* the named user, and changes no other User, no Pet and no Shelter.
C5_FileFrame ==
  [][ \A payload \in AdoptionPayloads :
        (ret'.op = "fileForAdoption" /\ ret'.tag = "Ok" /\ fileForAdoption(payload)) =>
          \E a \in DOMAIN AdoptionsStorage' :
            /\ a \notin DOMAIN AdoptionsStorage
            /\ DOMAIN AdoptionsStorage' = DOMAIN AdoptionsStorage \cup {a}
            /\ \A b \in DOMAIN AdoptionsStorage :
                 AdoptionsStorage'[b] = AdoptionsStorage[b]
            /\ AdoptionsStorage'[a].adoptionId = a
            /\ AdoptionsStorage'[a].status = "pending"
            /\ AdoptionsStorage'[a].petId = payload.petId
            /\ AdoptionsStorage'[a].userId = payload.userId
            /\ UsersStorage' =
                 [UsersStorage EXCEPT ![payload.userId].application = Append(@, a)]
            /\ PetsStorage' = PetsStorage
            /\ PetsStorage'[payload.petId].status = "notAdopted"
            /\ SheltersStorage' = SheltersStorage
    ]_vars

\* C5 witness: a fileForAdoption has just succeeded for a user who had filed
\* before.
C5_Witness ==
  /\ ret.op = "fileForAdoption"
  /\ ret.tag = "Ok"
  /\ Len(UsersStorage[ret.val.userId].application) >= 2

\* C6: failAdoption on a pending record sets that record's status to failed and
\* changes nothing else, the referenced pet's status is notAdopted afterwards,
\* and a following fileForAdoption with a valid payload for the same pet by an
\* existing user is not refused.
C6_FailThenRefile ==
  [][ \A adoptionId \in AdoptionIds :
        ( /\ ret'.op = "failAdoption"
          /\ adoptionId \in DOMAIN AdoptionsStorage
          /\ AdoptionsStorage[adoptionId].status = "pending"
          /\ failAdoption(adoptionId) )
        => /\ AdoptionsStorage' =
                [AdoptionsStorage EXCEPT ![adoptionId].status = "failed"]
           /\ UsersStorage' = UsersStorage
           /\ PetsStorage' = PetsStorage
           /\ SheltersStorage' = SheltersStorage
           /\ PetsStorage'[AdoptionsStorage[adoptionId].petId].status = "notAdopted"
           /\ \A payload \in AdoptionPayloads :
                ( /\ payload.petId = AdoptionsStorage[adoptionId].petId
                  /\ payload.userId \in DOMAIN UsersStorage
                  /\ validateAdoptionPayload(payload) )
                => (fileForAdoptionError(payload) = "None")'
    ]_vars

\* C7: a pet that is adopted stays adopted, no pet disappears, and a step that
\* changes the status of any pet is a successful completeAdoption.
C7_PetStatusMonotone ==
  [][ \A p \in DOMAIN PetsStorage :
        /\ p \in DOMAIN PetsStorage'
        /\ PetsStorage[p].status = "adopted" => PetsStorage'[p].status = "adopted"
        /\ PetsStorage'[p].status # PetsStorage[p].status
             => ret'.op = "completeAdoption" /\ ret'.tag = "Ok"
    ]_vars

\* C7 witness: updatePetInfo has just succeeded on an adopted pet.
C7_Witness ==
  /\ ret.op = "updatePetInfo"
  /\ ret.tag = "Ok"
  /\ PetsStorage[ret.val.id].status = "adopted"

\* C8: every pet id in a shelter's pets list is the key of a Pet whose shelterId
\* is that shelter's id.
C8_ShelterPetsReferential ==
  \A sh \in DOMAIN SheltersStorage :
    \A petId \in Range(SheltersStorage[sh].pets) :
      /\ petId \in DOMAIN PetsStorage
      /\ PetsStorage[petId].shelterId = SheltersStorage[sh].id
      /\ SheltersStorage[sh].id = sh

\* C8 witness: updateShelterInfo has just succeeded on a shelter that lists a
\* pet, while another shelter lists a pet too.
C8_Witness ==
  /\ ret.op = "updateShelterInfo"
  /\ ret.tag = "Ok"
  /\ Len(SheltersStorage[ret.val.id].pets) >= 1
  /\ \E sh \in DOMAIN SheltersStorage :
       sh # ret.val.id /\ Len(SheltersStorage[sh].pets) >= 1

\* C9: after a successful addPet the new pet is stored with status notAdopted,
\* its id is appended once to the list of the shelter named by the payload (the
\* earlier entries kept in order), and every other shelter is unchanged and
\* does not list it.
C9_AddPetAppendsOnce ==
  [][ \A payload \in PetPayloads :
        (ret'.op = "addPet" /\ ret'.tag = "Ok" /\ addPet(payload)) =>
          LET petId == ret'.val.id
              old == SheltersStorage[payload.shelterId].pets
              new == SheltersStorage'[payload.shelterId].pets
          IN /\ petId \notin DOMAIN PetsStorage
             /\ PetsStorage'[petId].status = "notAdopted"
             /\ PetsStorage'[petId].shelterId = payload.shelterId
             /\ new = Append(old, petId)
             /\ Cardinality({i \in 1..Len(new) : new[i] = petId}) = 1
             /\ \A sh \in DOMAIN SheltersStorage' \ {payload.shelterId} :
                  /\ SheltersStorage'[sh] = SheltersStorage[sh]
                  /\ petId \notin Range(SheltersStorage'[sh].pets)
    ]_vars

\* C9 witness: addPet has just succeeded for a shelter that listed a pet
\* already, and another shelter exists.
C9_Witness ==
  /\ ret.op = "addPet"
  /\ ret.tag = "Ok"
  /\ Len(SheltersStorage[ret.val.shelterId].pets) >= 2
  /\ Cardinality(DOMAIN SheltersStorage) >= 2

\* C10 as stated: addPet with a shelterId that is no key of the Shelters store
\* fails with NotFound and changes no store.
C10_AddPetUnknownShelterNotFound ==
  [][ \A payload \in PetPayloads :
        ( /\ ret'.op = "addPet"
          /\ payload.shelterId \notin DOMAIN SheltersStorage
          /\ addPet(payload) )
        => /\ ret'.tag = "NotFound"
           /\ UNCHANGED stores
    ]_vars

\* C10 amended: addPet with a shelterId that is no key of the Shelters store
\* fails and changes no store; the error is NotFound when every field of the
\* payload is a non-blank text, ValidationError otherwise.
C10_AddPetUnknownShelterFails ==
  [][ \A payload \in PetPayloads :
        ( /\ ret'.op = "addPet"
          /\ payload.shelterId \notin DOMAIN SheltersStorage
          /\ addPet(payload) )
        => /\ ret'.tag =
                IF \A k \in DOMAIN payload : Len(trim(payload[k])) > 0
                THEN "NotFound" ELSE "ValidationError"
           /\ UNCHANGED stores
    ]_vars

\* C10 witness: addPet has just failed with NotFound while a shelter exists.
C10_Witness ==
  /\ ret.op = "addPet"
  /\ ret.tag = "NotFound"
  /\ DOMAIN SheltersStorage # {}
  /\ PetsStorage = <<>>

\* C11: no two records of the Users store have the same principal.
C11_OneUserPerPrincipal ==
  \A u1 \in DOMAIN UsersStorage : \A u2 \in DOMAIN UsersStorage :
    UsersStorage[u1].principal = UsersStorage[u2].principal => u1 = u2

\* The phone numbers of the inputs that have 10 to 15 digits and nothing else.
GoodPhones == {Phone1, Phone2}

\* The e-mail addresses of the inputs of the shape local@domain.tld.
GoodEmails == {Email1, Email2}

\* C12: updateAdoptionRecord with a patch whose four fields are valid, on a
\* record of any status, succeeds, replaces userName, userPhoneNumber, address
\* and reasonForAdoption in the record stored under patch.adoptionId, keeps the
\* other fields of that record and the key set of the Adoptions store, and a
\* following getAdoptionRecord(patch.adoptionId) returns the patched record.
C12_UpdateAdoptionInPlace ==
  [][ \A payload \in UpdateAdoptionPayloads :
        ( /\ ret'.op = "updateAdoptionRecord"
          /\ payload.adoptionId \in DOMAIN AdoptionsStorage
          /\ Len(trim(payload.userName)) > 0
          /\ payload.userPhoneNumber \in GoodPhones
          /\ Len(trim(payload.address)) > 0
          /\ Len(trim(payload.reasonForAdoption)) > 0
          /\ updateAdoptionRecord(payload) )
        => LET patched ==
                 [AdoptionsStorage[payload.adoptionId] EXCEPT
                    !.userName = payload.userName,
                    !.userPhoneNumber = payload.userPhoneNumber,
                    !.address = payload.address,
                    !.reasonForAdoption = payload.reasonForAdoption]
           IN /\ ret'.tag = "Ok"
              /\ ret'.val = patched
              /\ DOMAIN AdoptionsStorage' = DOMAIN AdoptionsStorage
              /\ getAdoptionRecord(payload.adoptionId)' = [Some |-> patched]
    ]_vars

CompletedFor(petId) ==
  {a \in DOMAIN AdoptionsStorage :
     /\ AdoptionsStorage[a].petId = petId
     /\ AdoptionsStorage[a].status = "completed"}

\* C17: for each pet id at most one AdoptionRecord with that petId has status
\* completed.
C17_AtMostOneCompletedPerPet ==
  \A petId \in DOMAIN PetsStorage : Cardinality(CompletedFor(petId)) <= 1

\* C13: updatePetInfo and updateShelterInfo on an existing record return
\* ValidationError and change no store when the stored record merged with the
\* patch breaks a validation rule; otherwise they succeed and change exactly
\* the patched fields of that one record.
C13_UpdatesValidateMerged ==
  [][ /\ \A payload \in UpdatePetPayloads :
           ( /\ ret'.op = "updatePetInfo"
             /\ payload.petId \in DOMAIN PetsStorage
             /\ updatePetInfo(payload) )
           => LET merged == [PetsStorage[payload.petId] EXCEPT
                               !.healthStatus = payload.healthStatus,
                               !.age = payload.age]
              IN IF \A k \in PetFields \ {"id", "status"} : Len(trim(merged[k])) > 0
                 THEN /\ ret'.tag = "Ok"
                      /\ ret'.val = merged
                      /\ PetsStorage' = [PetsStorage EXCEPT ![payload.petId] = merged]
                      /\ UNCHANGED <<UsersStorage, SheltersStorage, AdoptionsStorage>>
                 ELSE /\ ret'.tag = "ValidationError"
                      /\ UNCHANGED stores
      /\ \A payload \in UpdateShelterPayloads :
           ( /\ ret'.op = "updateShelterInfo"
             /\ payload.id \in DOMAIN SheltersStorage
             /\ updateShelterInfo(payload) )
           => LET merged == [SheltersStorage[payload.id] EXCEPT
                               !.phoneNumber = payload.phoneNumber,
                               !.email = payload.email]
              IN IF /\ Len(trim(merged.name)) > 0
                    /\ Len(trim(merged.location)) > 0
                    /\ merged.phoneNumber \in GoodPhones
                    /\ merged.email \in GoodEmails
                 THEN /\ ret'.tag = "Ok"
                      /\ ret'.val = merged
                      /\ SheltersStorage' =
                           [SheltersStorage EXCEPT ![payload.id] = merged]
                      /\ UNCHANGED <<UsersStorage, PetsStorage, AdoptionsStorage>>
                 ELSE /\ ret'.tag = "ValidationError"
                      /\ UNCHANGED stores
    ]_vars

\* C13 witness: updatePetInfo has just been refused with ValidationError on a
\* pet whose stored image is blank, after updateShelterInfo changed a shelter.
C13_Witness ==
  /\ ret.op = "updatePetInfo"
  /\ ret.tag = "ValidationError"
  /\ \E p \in DOMAIN PetsStorage : PetsStorage[p].petImage = BlankText
  /\ \E sh \in DOMAIN SheltersStorage : SheltersStorage[sh].email = Email2

\* C14: a call that returns NotFound, InvalidPayload or ValidationError leaves
\* the four stores as they were.
C14_ErrorsChangeNothing ==
  [][ ret'.tag \in {"NotFound", "InvalidPayload", "ValidationError"}
        => UNCHANGED stores ]_vars

\* C14 witness: completeAdoption has just been refused with InvalidPayload
\* when every store holds a record.
C14_Witness ==
  /\ ret.op = "completeAdoption"
  /\ ret.tag = "InvalidPayload"
  /\ \E a \in DOMAIN AdoptionsStorage : AdoptionsStorage[a].status = "failed"

\* A successful creation returned `val` under key `id`: the key was not in the
\* store before, and every record the store held is still there, unchanged.
AddsFreshKey(old, new, id) ==
  /\ id \notin DOMAIN old
  /\ DOMAIN new = DOMAIN old \cup {id}
  /\ \A k \in DOMAIN old : new[k] = old[k]

\* C15: each successful addUser, createShelter, addPet and fileForAdoption adds
\* a record under a key that was not in its store and overwrites no record, so
\* two addUser calls with identical payloads give two ids and two records.
C15_CreationAddsFreshKey ==
  [][ /\ (ret'.op = "addUser" /\ ret'.tag = "Ok")
           => /\ AddsFreshKey(UsersStorage, UsersStorage', ret'.val.id)
              /\ UsersStorage'[ret'.val.id] = ret'.val
      /\ (ret'.op = "createShelter" /\ ret'.tag = "Ok")
           => AddsFreshKey(SheltersStorage, SheltersStorage', ret'.val.id)
      /\ (ret'.op = "addPet" /\ ret'.tag = "Ok")
           => AddsFreshKey(PetsStorage, PetsStorage', ret'.val.id)
      /\ (ret'.op = "fileForAdoption" /\ ret'.tag = "Ok")
           => AddsFreshKey(AdoptionsStorage, AdoptionsStorage', ret'.val.adoptionId)
    ]_vars

\* C15 witness: addUser has just succeeded with the payload of an earlier
\* addUser, and the store holds both records.
C15_Witness ==
  /\ ret.op = "addUser"
  /\ ret.tag = "Ok"
  /\ \E u \in DOMAIN UsersStorage :
       /\ u # ret.val.id
       /\ \A k \in UserFields \ {"id"} : UsersStorage[u][k] = ret.val[k]

\* C16: createShelter with a valid payload returns a record with an id that was
\* no key of the Shelters store, the caller as principal, an empty pets list and
\* the payload's fields, and getShelter(id) then returns that record.
C16_CreateShelterRoundTrip ==
  [][ \A caller \in Callers : \A payload \in ShelterPayloads :
        ( /\ ret'.op = "createShelter"
          /\ Len(trim(payload.name)) > 0
          /\ Len(trim(payload.location)) > 0
          /\ payload.phoneNumber \in GoodPhones
          /\ payload.email \in GoodEmails
          /\ createShelter(caller, payload) )
        => /\ ret'.tag = "Ok"
           /\ ret'.val.id \notin DOMAIN SheltersStorage
           /\ getShelter(ret'.val.id) = [None |-> TRUE]
           /\ ret'.val.principal = caller
           /\ ret'.val.pets = <<>>
           /\ \A k \in DOMAIN payload : ret'.val[k] = payload[k]
           /\ DOMAIN ret'.val = ShelterFields
           /\ \E id \in ShelterIds :
                /\ id = ret'.val.id
                /\ getShelter(id)' = [Some |-> ret'.val]
    ]_vars

\* C16 witness: createShelter has just succeeded for a caller other than the
\* one who created the first shelter, which lists a pet.
C16_Witness ==
  /\ ret.op = "createShelter"
  /\ ret.tag = "Ok"
  /\ \E sh \in DOMAIN SheltersStorage :
       /\ SheltersStorage[sh].principal # ret.val.principal
       /\ Len(SheltersStorage[sh].pets) >= 1

\* C18: a pet has status adopted if and only if some AdoptionRecord with its id
\* as petId has status completed, and the pet of a completed record exists.
C18_AdoptedIffCompleted ==
  /\ \A p \in DOMAIN PetsStorage :
       PetsStorage[p].status = "adopted" <=> CompletedFor(p) # {}
  /\ \A a \in DOMAIN AdoptionsStorage :
       AdoptionsStorage[a].status = "completed"
         => AdoptionsStorage[a].petId \in DOMAIN PetsStorage

\* C18 witness: completeAdoption has just succeeded for a pet that also has a
\* failed record.
C18_Witness ==
  /\ ret.op = "completeAdoption"
  /\ ret.tag = "Ok"
  /\ PetsStorage[ret.val.petId].status = "adopted"
  /\ \E a \in DOMAIN AdoptionsStorage :
       /\ AdoptionsStorage[a].petId = ret.val.petId
       /\ AdoptionsStorage[a].status = "failed"

\* C19: every id in a user's application list is the key of an AdoptionRecord
\* whose userId is that user's id, no id occurs twice in a list, and every
\* AdoptionRecord's adoptionId is in the list of the user named by its userId
\* and of no other user.
C19_ApplicationsConsistent ==
  /\ \A u \in DOMAIN UsersStorage :
       LET apps == UsersStorage[u].application
       IN /\ \A i \in 1..Len(apps) :
               /\ apps[i] \in DOMAIN AdoptionsStorage
               /\ AdoptionsStorage[apps[i]].userId = UsersStorage[u].id
               /\ UsersStorage[u].id = u
          /\ \A i \in 1..Len(apps) : \A j \in 1..Len(apps) :
               apps[i] = apps[j] => i = j
  /\ \A a \in DOMAIN AdoptionsStorage :
       /\ AdoptionsStorage[a].adoptionId = a
       /\ \A u \in DOMAIN UsersStorage :
            AdoptionsStorage[a].adoptionId \in Range(UsersStorage[u].application)
              <=> u = AdoptionsStorage[a].userId
       /\ AdoptionsStorage[a].userId \in DOMAIN UsersStorage

\* C19 witness: two users exist, one has filed an application and the other
\* none, and updateAdoptionRecord has been called on that application with a
\* valid patch.
C19_Witness ==
  /\ \E u \in DOMAIN UsersStorage : Len(UsersStorage[u].application) >= 1
  /\ \E u \in DOMAIN UsersStorage : Len(UsersStorage[u].application) = 0
  /\ ret.op = "updateAdoptionRecord"
  /\ ret.tag \notin {"NotFound", "ValidationError"}

====
